---- MODULE Spec2Model ----
(***************************************************************************)
(* Model of the force/torque sensor plugin GazeboRosFT                     *)
(* (gazebo_plugins/src/gazebo_ros_ft_sensor.cpp).                          *)
(*                                                                         *)
(* Three threads of control:                                               *)
(*   host      : constructs the plugin, runs Load, later the destructor    *)
(*   simulation: calls UpdateChild once per world update while connected   *)
(*   delivery  : QueueThread, which services queue_ (FTConnect /           *)
(*               FTDisconnect run inside callAvailable)                    *)
(* Simulation time is counted in milliseconds.                             *)
(***************************************************************************)
EXTENDS Integers, Sequences, FiniteSets, TLC

\* ------------------------------------------------------------------ bounds
MaxTicks == 2        \* world updates per behaviour
MaxEvents == 2       \* subscribe events per behaviour
ScenarioTicks == 250 \* ticks of the fixed-step scenario
ReconnectTicks == 14 \* ticks of the reconnection scenario

\* --------------------------------------------------------------- constants
TicksPerSec == 1000  \* time units in the one second of 1.0/update_rate_

Rates == {0, 1000}   \* <updateRate> values: as fast as possible, 1 kHz
Dts == {0, 1}        \* advance of simulation time from one tick to the next
Prefixes == {<<"/", "p">>} \* the tf_prefix parameter
ChildLinkName == <<"l">>
Vec(a) == <<a, a + 1, a + 2>>
\* joint_->GetForceTorque(0) at simulation time t: the physics engine
\* reports one wrench per world update, different on both bodies
GetForceTorque(t) ==
  [body1Force |-> Vec(10 + t), body1Torque |-> Vec(20 + t),
   body2Force |-> Vec(30 + t), body2Torque |-> Vec(40 + t)]
NoVec == <<0, 0, 0>>
\* the <plugin> elements: which tags are present, and the value of
\* <updateRate> when it is (jointExists: the model has a joint of that name)
SdfElements ==
  { e \in [jointName : BOOLEAN, jointExists : BOOLEAN, topicName : BOOLEAN,
           hasUpdateRate : BOOLEAN, updateRate : Rates] :
      ~e.hasUpdateRate => e.updateRate = 0 }
NoWrench == [body1Force |-> NoVec, body1Torque |-> NoVec,
             body2Force |-> NoVec, body2Torque |-> NoVec]
NoMsg == [frame_id |-> <<>>, stamp |-> 0, force |-> NoVec, torque |-> NoVec]

VARIABLES
  hostPc,                 \* position of the host thread (Load, destructor)
  joint_,                 \* "null" or "joint"
  frame_name_,
  update_rate_,
  rosnode_,               \* "uninit", "ok", "shutdown", "freed"
  pub_,                   \* "none", "advertised", "unadvertised"
  queue_,                 \* [enabled, callbacks]
  callback_queue_thread_, \* "not_a_thread", "joinable", "joined"
  update_connection_,     \* "null", "connected", "disconnected"
  ft_connect_count_,
  last_time_,
  lock_,                  \* TRUE while lock_ is held
  wrench_msg_,
  simTime,                \* world_->GetSimTime()
  simPc,                  \* position of the simulation thread in UpdateChild
  cur_time,               \* local of UpdateChild
  wrench, force, torque,  \* locals of UpdateChild
  qtPc,                   \* position of the delivery thread in QueueThread
  batch,                  \* callbacks callAvailable has taken off queue_
  \* ---- history (observation only)
  loadFault,              \* the prerequisite Load's input lacked, or "none"
  loadLog,                \* wiring steps Load has performed, in order
  tickNo,                 \* ticks started so far
  pubLog,                 \* simulation time of every message sent
  subscribers,            \* subscribers currently connected to the topic
  subEvents,              \* subscribe events so far
  nConnect, nDisconnect,  \* FTConnect / FTDisconnect calls completed
  useAfterFree,           \* the delivery thread touched a freed rosnode_
  crashed                 \* the process died of undefined behaviour

vars == <<hostPc, joint_, frame_name_, update_rate_, rosnode_, pub_, queue_,
          callback_queue_thread_, update_connection_, ft_connect_count_,
          last_time_, lock_, wrench_msg_, simTime, simPc, cur_time, wrench,
          force, torque, qtPc, batch, loadFault, loadLog, tickNo, pubLog,
          subscribers, subEvents, nConnect, nDisconnect, useAfterFree,
          crashed>>

progVars == <<joint_, frame_name_, update_rate_, rosnode_, pub_, queue_,
              callback_queue_thread_, update_connection_, ft_connect_count_,
              last_time_, lock_, wrench_msg_>>
simVars == <<simTime, simPc, cur_time, tickNo, pubLog>>
subVars == <<subscribers, subEvents>>
loadHist == <<loadFault, loadLog>>

\* ---------------------------------------------------------------- helpers
\* tf::resolve(prefix, frame_name), called at line 118
StripLeadingSlash(s) == IF Len(s) > 0 /\ s[1] = "/" THEN Tail(s) ELSE s

Resolve(prefix, name) ==
  IF Len(name) > 0 /\ name[1] = "/" THEN StripLeadingSlash(name)
  ELSE IF Len(prefix) > 0 THEN StripLeadingSlash(prefix) \o <<"/">> \o name
  ELSE name

\* mutants of the rate control test: "<=" for "<", and no test at all
RateLimited_Inclusive(rate, cur, last) ==
  rate > 0 /\ (cur - last) * rate <= TicksPerSec

RateLimited_Off(rate, cur, last) == FALSE

\* mutant: the "update_rate_ > 0" half of the test is missing
RateLimited_NoZeroCheck(rate, cur, last) ==
  (cur - last) * rate < TicksPerSec

\* the rate control test of UpdateChild: TRUE when the tick is too early
RateLimited(rate, cur, last) ==
  rate > 0 /\ (cur - last) * rate < TicksPerSec

\* ------------------------------------------------------------------- Init
\* State after the constructor: only ft_connect_count_ is assigned.
\* rosnode_ is a raw pointer the constructor leaves indeterminate; the
\* handles (thread, connection, publisher, queue, time) are default
\* constructed.  update_rate_ is not read before Load assigns it.
ProgInit ==
  /\ joint_ = "null"
  /\ frame_name_ = <<>>
  /\ update_rate_ = 0
  /\ rosnode_ = "uninit"
  /\ pub_ = "none"
  /\ queue_ = [enabled |-> TRUE, callbacks |-> <<>>]
  /\ callback_queue_thread_ = "not_a_thread"
  /\ update_connection_ = "null"
  /\ ft_connect_count_ = 0
  /\ last_time_ = 0
  /\ lock_ = FALSE
  /\ wrench_msg_ = NoMsg

HistInit ==
  /\ loadFault = "none"
  /\ loadLog = <<>>
  /\ tickNo = 0
  /\ pubLog = <<>>
  /\ subscribers = 0
  /\ subEvents = 0
  /\ nConnect = 0
  /\ nDisconnect = 0
  /\ useAfterFree = FALSE
  /\ crashed = FALSE

Init ==
  /\ hostPc = "constructed"
  /\ ProgInit
  /\ simTime = 0
  /\ simPc = "idle"
  /\ cur_time = 0
  /\ wrench = NoWrench
  /\ force = NoVec
  /\ torque = NoVec
  /\ qtPc = "none"
  /\ batch = <<>>
  /\ HistInit

\* ------------------------------------------------------------------- Load
ldFrame == <<ft_connect_count_, last_time_, lock_, wrench_msg_,
             simVars, wrench, force, torque, batch, subVars, nConnect,
             nDisconnect, useAfterFree, crashed>>

\* The prerequisite a Load input lacks (the first one, in the order of
\* the plugin's documentation: joint name, joint, topic name, ROS)
Fault(e, rosInitialized) ==
  IF ~e.jointName THEN "jointName"
  ELSE IF ~e.jointExists THEN "joint"
  ELSE IF ~e.topicName THEN "topicName"
  ELSE IF ~rosInitialized THEN "ros"
  ELSE "none"

\* mutant: the return after the ros::isInitialized check is missing
LoadParams_NoRosCheck(e, rosInitialized) ==
  /\ hostPc = "constructed"
  /\ ~crashed
  /\ loadFault' = Fault(e, rosInitialized)
  /\ IF ~e.jointName \/ ~e.jointExists
       THEN /\ hostPc' = "load_failed"
            /\ UNCHANGED <<joint_, frame_name_, update_rate_, loadLog>>
     ELSE IF ~e.topicName
       THEN /\ hostPc' = "load_failed"
            /\ joint_' = "joint"
            /\ frame_name_' = ChildLinkName
            /\ loadLog' = loadLog \o <<"joint", "frame">>
            /\ UNCHANGED update_rate_
     ELSE /\ joint_' = "joint"
          /\ frame_name_' = ChildLinkName
          /\ update_rate_' = IF ~e.hasUpdateRate THEN 0 ELSE e.updateRate
          /\ hostPc' = "load_node"
          /\ loadLog' = loadLog \o <<"joint", "frame", "topic", "ros">>
  /\ UNCHANGED <<ldFrame, rosnode_, pub_, queue_, callback_queue_thread_,
                 update_connection_, qtPc>>

\* Lines 56-111 on the <plugin> element e: parameter checks, up to and
\* including ros::isInitialized.  Every early return is taken before
\* anything is wired.
LoadParams(e, rosInitialized) ==
  /\ hostPc = "constructed"
  /\ ~crashed
  /\ loadFault' = Fault(e, rosInitialized)
  /\ IF ~e.jointName
       THEN /\ hostPc' = "load_failed"
            /\ UNCHANGED <<joint_, frame_name_, update_rate_, loadLog>>
     ELSE IF ~e.jointExists
       THEN /\ hostPc' = "load_failed"
            /\ UNCHANGED <<joint_, frame_name_, update_rate_, loadLog>>
     ELSE IF ~e.topicName
       THEN /\ hostPc' = "load_failed"
            /\ joint_' = "joint"
            /\ frame_name_' = ChildLinkName
            /\ loadLog' = loadLog \o <<"joint", "frame">>
            /\ UNCHANGED update_rate_
     ELSE /\ joint_' = "joint"
          /\ frame_name_' = ChildLinkName
          /\ update_rate_' = IF ~e.hasUpdateRate THEN 0 ELSE e.updateRate
          /\ IF ~rosInitialized
               THEN /\ hostPc' = "load_failed"
                    /\ loadLog' = loadLog \o <<"joint", "frame", "topic">>
               ELSE /\ hostPc' = "load_node"
                    /\ loadLog' = loadLog \o <<"joint", "frame", "topic",
                                               "ros">>
  /\ UNCHANGED <<ldFrame, rosnode_, pub_, queue_, callback_queue_thread_,
                 update_connection_, qtPc>>

LoadValidate ==
  \E e \in SdfElements, rosInitialized \in BOOLEAN :
    LoadParams(e, rosInitialized)

\* mutant: the frame name is resolved before the node handle is created
LoadNode_ResolveFirst ==
  /\ hostPc = "load_node"
  /\ ~crashed
  /\ \E tf_prefix \in Prefixes :
       frame_name_' = Resolve(tf_prefix, frame_name_)
  /\ rosnode_' = "ok"
  /\ loadLog' = loadLog \o <<"resolve", "node">>
  /\ hostPc' = "load_advertise"
  /\ UNCHANGED <<ldFrame, loadFault, joint_, update_rate_, pub_, queue_,
                 callback_queue_thread_, update_connection_, qtPc>>

\* Lines 113-118: new ros::NodeHandle, then the frame name is resolved
\* against the node's tf_prefix parameter
LoadNode ==
  /\ hostPc = "load_node"
  /\ ~crashed
  /\ rosnode_' = "ok"
  /\ \E tf_prefix \in Prefixes :
       frame_name_' = Resolve(tf_prefix, frame_name_)
  /\ loadLog' = loadLog \o <<"node", "resolve">>
  /\ hostPc' = "load_advertise"
  /\ UNCHANGED <<ldFrame, loadFault, joint_, update_rate_, pub_, queue_,
                 callback_queue_thread_, update_connection_, qtPc>>

\* Lines 121-125: advertise with FTConnect / FTDisconnect on queue_
LoadAdvertise ==
  /\ hostPc = "load_advertise"
  /\ ~crashed
  /\ pub_' = "advertised"
  /\ loadLog' = Append(loadLog, "advertise")
  /\ hostPc' = "load_thread"
  /\ UNCHANGED <<ldFrame, loadFault, joint_, frame_name_, update_rate_,
                 rosnode_, queue_,
                 callback_queue_thread_, update_connection_, qtPc>>

\* Line 128: the delivery thread is started on QueueThread
LoadThread ==
  /\ hostPc = "load_thread"
  /\ ~crashed
  /\ callback_queue_thread_' = "joinable"
  /\ qtPc' = "check"
  /\ loadLog' = Append(loadLog, "thread")
  /\ hostPc' = "load_connect"
  /\ UNCHANGED <<ldFrame, loadFault, joint_, frame_name_, update_rate_,
                 rosnode_, pub_,
                 queue_, update_connection_>>

\* Lines 133-134: UpdateChild is connected to the world update event
LoadConnect ==
  /\ hostPc = "load_connect"
  /\ ~crashed
  /\ update_connection_' = "connected"
  /\ loadLog' = Append(loadLog, "connect")
  /\ hostPc' = "loaded"
  /\ UNCHANGED <<ldFrame, loadFault, joint_, frame_name_, update_rate_,
                 rosnode_, pub_,
                 queue_, callback_queue_thread_, qtPc>>

\* ------------------------------------------------- subscribers (transport)
\* A subscriber connects to the advertised topic: the transport queues the
\* connect callback on queue_ (dropped when the queue is disabled).
Enqueue(q, cb) ==
  IF q.enabled THEN [q EXCEPT !.callbacks = Append(@, cb)] ELSE q

Subscribe ==
  /\ pub_ = "advertised"
  /\ ~crashed
  /\ subEvents < MaxEvents
  /\ subscribers' = subscribers + 1
  /\ subEvents' = subEvents + 1
  /\ queue_' = Enqueue(queue_, "connect")
  /\ UNCHANGED <<hostPc, joint_, frame_name_, update_rate_,
                 rosnode_, pub_, callback_queue_thread_, update_connection_,
                 ft_connect_count_, last_time_, lock_, wrench_msg_, simVars,
                 wrench, force, torque, qtPc, batch, loadHist, nConnect,
                 nDisconnect, useAfterFree, crashed>>

Unsubscribe ==
  /\ pub_ = "advertised"
  /\ ~crashed
  /\ subscribers > 0
  /\ subscribers' = subscribers - 1
  /\ queue_' = Enqueue(queue_, "disconnect")
  /\ UNCHANGED <<hostPc, joint_, frame_name_, update_rate_,
                 rosnode_, pub_, callback_queue_thread_, update_connection_,
                 ft_connect_count_, last_time_, lock_, wrench_msg_, simVars,
                 wrench, force, torque, qtPc, batch, loadHist, subEvents,
                 nConnect, nDisconnect, useAfterFree, crashed>>

\* ------------------------------------------------------------ QueueThread
qtFrame == <<hostPc, joint_, frame_name_, update_rate_, rosnode_,
             pub_, callback_queue_thread_, update_connection_, last_time_,
             lock_, wrench_msg_, simVars, wrench, force, torque, loadHist,
             subVars>>

\* Line 206: while (this->rosnode_->ok()).  Reading through a freed
\* rosnode_ is undefined: the loop may go on, stop, or the process may die.
QueueThreadCheck ==
  /\ qtPc = "check"
  /\ ~crashed
  /\ IF rosnode_ = "freed"
       THEN /\ useAfterFree' = TRUE
            /\ \E o \in {"poll", "exited", "crash"} :
                 /\ qtPc' = IF o = "crash" THEN qtPc ELSE o
                 /\ crashed' = (o = "crash")
       ELSE /\ qtPc' = IF rosnode_ = "ok" THEN "poll" ELSE "exited"
            /\ UNCHANGED <<useAfterFree, crashed>>
  /\ UNCHANGED <<qtFrame, queue_, ft_connect_count_, batch, nConnect,
                 nDisconnect>>

\* Line 208: queue_.callAvailable(timeout).  A disabled queue returns at
\* once, an empty one after the timeout; otherwise the pending callbacks
\* are taken off the queue and called one by one.
CallAvailable ==
  /\ qtPc = "poll"
  /\ ~crashed
  /\ IF queue_.enabled /\ queue_.callbacks # <<>>
       THEN /\ batch' = queue_.callbacks
            /\ queue_' = [queue_ EXCEPT !.callbacks = <<>>]
            /\ qtPc' = "dispatch"
       ELSE /\ qtPc' = "check"
            /\ UNCHANGED <<batch, queue_>>
  /\ UNCHANGED <<qtFrame, ft_connect_count_, nConnect, nDisconnect,
                 useAfterFree, crashed>>

\* callAvailable calls the next callback it has taken, or returns
CallOneCB ==
  /\ qtPc = "dispatch"
  /\ ~crashed
  /\ qtPc' = IF batch = <<>> THEN "check"
             ELSE IF Head(batch) = "connect" THEN "in_connect"
             ELSE "in_disconnect"
  /\ UNCHANGED <<qtFrame, queue_, ft_connect_count_, batch, nConnect,
                 nDisconnect, useAfterFree, crashed>>

\* Lines 139-142: this->ft_connect_count_++ (a plain, unlocked int)
FTConnect ==
  /\ qtPc = "in_connect"
  /\ ~crashed
  /\ ft_connect_count_' = ft_connect_count_ + 1
  /\ nConnect' = nConnect + 1
  /\ batch' = Tail(batch)
  /\ qtPc' = "dispatch"
  /\ UNCHANGED <<qtFrame, queue_, nDisconnect, useAfterFree, crashed>>

\* mutant: FTDisconnect copied from FTConnect without changing the sign
FTDisconnect_Increments ==
  /\ qtPc = "in_disconnect"
  /\ ~crashed
  /\ ft_connect_count_' = ft_connect_count_ + 1
  /\ nDisconnect' = nDisconnect + 1
  /\ batch' = Tail(batch)
  /\ qtPc' = "dispatch"
  /\ UNCHANGED <<qtFrame, queue_, nConnect, useAfterFree, crashed>>

\* Lines 146-149: this->ft_connect_count_-- (a plain, unlocked int)
FTDisconnect ==
  /\ qtPc = "in_disconnect"
  /\ ~crashed
  /\ ft_connect_count_' = ft_connect_count_ - 1
  /\ nDisconnect' = nDisconnect + 1
  /\ batch' = Tail(batch)
  /\ qtPc' = "dispatch"
  /\ UNCHANGED <<qtFrame, queue_, nConnect, useAfterFree, crashed>>

\* ------------------------------------------------------------ UpdateChild
ucFrame == <<hostPc, joint_, frame_name_, update_rate_, rosnode_,
             pub_, queue_, callback_queue_thread_, update_connection_,
             ft_connect_count_, qtPc, batch, loadHist, subVars, nConnect,
             nDisconnect, useAfterFree, crashed>>

\* The value a read of ft_connect_count_ can return: the counter has no
\* lock, so a read during FTConnect / FTDisconnect sees either side of
\* the write.
CountReads ==
  IF qtPc = "in_connect"
    THEN {ft_connect_count_, ft_connect_count_ + 1}
  ELSE IF qtPc = "in_disconnect"
    THEN {ft_connect_count_, ft_connect_count_ - 1}
  ELSE {ft_connect_count_}

\* mutant: the subscriber check of lines 162-163 is missing
UpdateChildGate_NoSubscriberCheck(dt) ==
  /\ update_connection_ = "connected"
  /\ simPc = "idle"
  /\ ~crashed
  /\ simTime' = simTime + dt
  /\ cur_time' = simTime'
  /\ tickNo' = tickNo + 1
  /\ simPc' = IF RateLimited(update_rate_, cur_time', last_time_)
               THEN "idle" ELSE "sample"
  /\ UNCHANGED <<ucFrame, last_time_, lock_, wrench_msg_, wrench, force,
                 torque, pubLog>>

\* mutant: the time stamp is also saved when the tick returns at line 163
UpdateChildGate_StampOnIdleSkip(dt) ==
  /\ update_connection_ = "connected"
  /\ simPc = "idle"
  /\ ~crashed
  /\ simTime' = simTime + dt
  /\ cur_time' = simTime'
  /\ tickNo' = tickNo + 1
  /\ IF RateLimited(update_rate_, cur_time', last_time_)
       THEN simPc' = "idle" /\ UNCHANGED last_time_
       ELSE \E seen \in CountReads :
              /\ simPc' = IF seen = 0 THEN "idle" ELSE "sample"
              /\ last_time_' = IF seen = 0 THEN cur_time' ELSE last_time_
  /\ UNCHANGED <<ucFrame, lock_, wrench_msg_, wrench, force, torque, pubLog>>

\* mutant: a tick that returns early resets the message buffer
UpdateChildGate_ResetsMessageOnSkip(dt) ==
  /\ update_connection_ = "connected"
  /\ simPc = "idle"
  /\ ~crashed
  /\ simTime' = simTime + dt
  /\ cur_time' = simTime'
  /\ tickNo' = tickNo + 1
  /\ IF RateLimited(update_rate_, cur_time', last_time_)
       THEN simPc' = "idle"
       ELSE \E seen \in CountReads :
              simPc' = IF seen = 0 THEN "idle" ELSE "sample"
  /\ wrench_msg_' = IF simPc' = "idle" THEN NoMsg ELSE wrench_msg_
  /\ UNCHANGED <<ucFrame, last_time_, lock_, wrench, force, torque, pubLog>>

\* Lines 155-163 of one world update that advances simulation time by dt:
\* read the time, rate control, subscriber check
UpdateChildGate(dt) ==
  /\ update_connection_ = "connected"
  /\ simPc = "idle"
  /\ ~crashed
  /\ simTime' = simTime + dt
  /\ cur_time' = simTime'
  /\ tickNo' = tickNo + 1
  /\ IF RateLimited(update_rate_, cur_time', last_time_)
       THEN simPc' = "idle"
       ELSE \E seen \in CountReads :
              simPc' = IF seen = 0 THEN "idle" ELSE "sample"
  /\ UNCHANGED <<ucFrame, last_time_, lock_, wrench_msg_, wrench, force,
                 torque, pubLog>>

UpdateChildBegin ==
  /\ tickNo < MaxTicks
  /\ \E dt \in Dts : UpdateChildGate(dt)

\* mutant: the parent body's side of the wrench is reported
UpdateChildSample_ParentSide ==
  /\ simPc = "sample"
  /\ ~crashed
  /\ ~lock_
  /\ wrench' = GetForceTorque(simTime)
  /\ force' = wrench'.body1Force
  /\ torque' = wrench'.body1Torque
  /\ lock_' = TRUE
  /\ simPc' = "fill"
  /\ UNCHANGED <<ucFrame, last_time_, wrench_msg_, simTime, cur_time,
                 tickNo, pubLog>>

\* mutant: line 179 is missing, the buffer is filled without the lock
UpdateChildSample_NoLock ==
  /\ simPc = "sample"
  /\ ~crashed
  /\ wrench' = GetForceTorque(simTime)
  /\ force' = wrench'.body2Force
  /\ torque' = wrench'.body2Torque
  /\ simPc' = "fill"
  /\ UNCHANGED <<ucFrame, last_time_, lock_, wrench_msg_, simTime, cur_time,
                 tickNo, pubLog>>

\* Lines 174-179: the wrench of the joint, child body side; lock_.lock()
UpdateChildSample ==
  /\ simPc = "sample"
  /\ ~crashed
  /\ ~lock_
  /\ wrench' = GetForceTorque(simTime)
  /\ force' = wrench'.body2Force
  /\ torque' = wrench'.body2Torque
  /\ lock_' = TRUE
  /\ simPc' = "fill"
  /\ UNCHANGED <<ucFrame, last_time_, wrench_msg_, simTime, cur_time,
                 tickNo, pubLog>>

\* Lines 181-190
UpdateChildFill ==
  /\ simPc = "fill"
  /\ ~crashed
  /\ wrench_msg_' = [frame_id |-> frame_name_, stamp |-> simTime,
                     force |-> force, torque |-> torque]
  /\ simPc' = "publish"
  /\ UNCHANGED <<ucFrame, last_time_, lock_, simTime, cur_time, tickNo,
                 pubLog, wrench, force, torque>>

\* Line 192: a publisher that is no longer advertised sends nothing
UpdateChildPublish ==
  /\ simPc = "publish"
  /\ ~crashed
  /\ pubLog' = IF pub_ = "advertised"
                 THEN Append(pubLog, cur_time)
                 ELSE pubLog
  /\ simPc' = "unlock"
  /\ UNCHANGED <<ucFrame, last_time_, lock_, wrench_msg_, simTime, cur_time,
                 tickNo, wrench, force, torque>>

\* mutant: line 196 is missing, the time stamp of the publish is not saved
UpdateChildEnd_NoStamp ==
  /\ simPc = "unlock"
  /\ ~crashed
  /\ lock_' = FALSE
  /\ wrench' = NoWrench
  /\ force' = NoVec
  /\ torque' = NoVec
  /\ simPc' = "idle"
  /\ UNCHANGED <<ucFrame, last_time_, wrench_msg_, simTime, cur_time,
                 tickNo, pubLog>>

\* Lines 193-197: lock_.unlock(), save the time stamp, return (the locals
\* go out of scope)
UpdateChildEnd ==
  /\ simPc = "unlock"
  /\ ~crashed
  /\ lock_' = FALSE
  /\ last_time_' = cur_time
  /\ wrench' = NoWrench
  /\ force' = NoVec
  /\ torque' = NoVec
  /\ simPc' = "idle"
  /\ UNCHANGED <<ucFrame, wrench_msg_, simTime, cur_time, tickNo, pubLog>>

\* A tick still running when the plugin object is gone touches destroyed
\* members: it may go on as above, or the process dies.
UpdateChildAfterDestroy ==
  /\ simPc # "idle"
  /\ hostPc = "destroyed"
  /\ ~crashed
  /\ crashed' = TRUE
  /\ UNCHANGED <<hostPc, progVars, simVars, wrench, force, torque,
                 qtPc, batch, loadHist, subVars, nConnect, nDisconnect,
                 useAfterFree>>

\* ------------------------------------------------------------- destructor
dtFrame == <<joint_, frame_name_, update_rate_, ft_connect_count_,
             last_time_, lock_, wrench_msg_, simVars, wrench, force, torque,
             qtPc, batch, loadHist, subVars, nConnect, nDisconnect,
             useAfterFree, crashed>>

\* mutant: line 45 is missing, UpdateChild stays connected during shutdown
DestructorDisconnect_KeepsConnection ==
  /\ hostPc \in {"loaded", "load_failed"}
  /\ ~crashed
  /\ hostPc' = "dtor_clear"
  /\ UNCHANGED <<dtFrame, rosnode_, pub_, queue_, callback_queue_thread_,
                 update_connection_>>

\* Line 45: the plugin is unloaded once Load has returned
DestructorDisconnect ==
  /\ hostPc \in {"loaded", "load_failed"}
  /\ ~crashed
  /\ update_connection_' = IF update_connection_ = "connected"
                             THEN "disconnected" ELSE update_connection_
  /\ hostPc' = "dtor_clear"
  /\ UNCHANGED <<dtFrame, rosnode_, pub_, queue_, callback_queue_thread_>>

\* Line 47
DestructorClear ==
  /\ hostPc = "dtor_clear"
  /\ ~crashed
  /\ queue_' = [queue_ EXCEPT !.callbacks = <<>>]
  /\ hostPc' = "dtor_disable"
  /\ UNCHANGED <<dtFrame, rosnode_, pub_, callback_queue_thread_,
                 update_connection_>>

\* mutant: lines 48 and 49 swapped, the node is shut down first
DestructorDisable_ShutdownFirst ==
  /\ hostPc = "dtor_disable"
  /\ ~crashed
  /\ IF rosnode_ = "ok"
       THEN rosnode_' = "shutdown" /\ pub_' = "unadvertised"
       ELSE UNCHANGED <<rosnode_, pub_>>
  /\ hostPc' = "dtor_shutdown"
  /\ UNCHANGED <<dtFrame, queue_, callback_queue_thread_,
                 update_connection_>>

\* Line 48
DestructorDisable ==
  /\ hostPc = "dtor_disable"
  /\ ~crashed
  /\ queue_' = [queue_ EXCEPT !.enabled = FALSE]
  /\ hostPc' = "dtor_shutdown"
  /\ UNCHANGED <<dtFrame, rosnode_, pub_, callback_queue_thread_,
                 update_connection_>>

\* mutant: line 49 is missing, the node is never told to shut down
DestructorShutdown_NoSignal ==
  /\ hostPc = "dtor_shutdown"
  /\ ~crashed
  /\ hostPc' = "dtor_join"
  /\ UNCHANGED <<dtFrame, rosnode_, pub_, queue_, callback_queue_thread_,
                 update_connection_>>

\* Line 49: shutting the node down unadvertises its publishers.  When Load
\* returned early rosnode_ is still indeterminate and the call is undefined:
\* it either goes on (here) or the process dies (DestructorBadPointer).
DestructorShutdown ==
  /\ hostPc = "dtor_shutdown"
  /\ ~crashed
  /\ IF rosnode_ = "ok"
       THEN rosnode_' = "shutdown" /\ pub_' = "unadvertised"
       ELSE UNCHANGED <<rosnode_, pub_>>
  /\ hostPc' = "dtor_join"
  /\ UNCHANGED <<dtFrame, queue_, callback_queue_thread_,
                 update_connection_>>

\* mutant: the thread is let go instead of joined, line 50 does not wait
DestructorJoin_NoWait ==
  /\ hostPc = "dtor_join"
  /\ ~crashed
  /\ callback_queue_thread_' = IF callback_queue_thread_ = "joinable"
                                 THEN "joined" ELSE callback_queue_thread_
  /\ hostPc' = "dtor_delete"
  /\ UNCHANGED <<dtFrame, rosnode_, pub_, queue_, update_connection_>>

\* Line 50: join blocks until QueueThread has returned; joining a thread
\* that was never started returns at once.
DestructorJoin ==
  /\ hostPc = "dtor_join"
  /\ ~crashed
  /\ IF callback_queue_thread_ = "joinable"
       THEN /\ qtPc = "exited"
            /\ callback_queue_thread_' = "joined"
       ELSE UNCHANGED callback_queue_thread_
  /\ hostPc' = "dtor_delete"
  /\ UNCHANGED <<dtFrame, rosnode_, pub_, queue_, update_connection_>>

\* Line 51
DestructorDelete ==
  /\ hostPc = "dtor_delete"
  /\ ~crashed
  /\ rosnode_' = IF rosnode_ = "shutdown" THEN "freed" ELSE rosnode_
  /\ hostPc' = "destroyed"
  /\ UNCHANGED <<dtFrame, pub_, queue_, callback_queue_thread_,
                 update_connection_>>

\* Lines 49 and 51 through an indeterminate rosnode_: the process dies
DestructorBadPointer ==
  /\ hostPc \in {"dtor_shutdown", "dtor_delete"}
  /\ rosnode_ = "uninit"
  /\ ~crashed
  /\ crashed' = TRUE
  /\ UNCHANGED <<hostPc, progVars, simVars, wrench, force, torque,
                 qtPc, batch, loadHist, subVars, nConnect, nDisconnect,
                 useAfterFree>>

\* ------------------------------------------------------------------- Next
Next ==
  \/ LoadValidate \/ LoadNode \/ LoadAdvertise \/ LoadThread \/ LoadConnect
  \/ Subscribe \/ Unsubscribe
  \/ QueueThreadCheck \/ CallAvailable \/ CallOneCB \/ FTConnect
  \/ FTDisconnect
  \/ UpdateChildBegin \/ UpdateChildSample
  \/ UpdateChildFill \/ UpdateChildPublish
  \/ UpdateChildEnd \/ UpdateChildAfterDestroy
  \/ DestructorDisconnect \/ DestructorClear \/ DestructorDisable
  \/ DestructorShutdown \/ DestructorJoin \/ DestructorDelete
  \/ DestructorBadPointer

Spec == Init /\ [][Next]_vars

\* The delivery thread and the host thread keep running once started
QueueThreadStep ==
  QueueThreadCheck \/ CallAvailable \/ CallOneCB \/ FTConnect \/ FTDisconnect

DestructorStep ==
  \/ DestructorClear \/ DestructorDisable \/ DestructorShutdown
  \/ DestructorJoin \/ DestructorDelete

\* Shutdown is followed to its end with the whole plugin running, the
\* simulation thread taking one world update.
UpdateChildBeginF ==
  /\ tickNo < 1
  /\ \E dt \in Dts : UpdateChildGate(dt)

NextF ==
  \/ LoadValidate \/ LoadNode \/ LoadAdvertise \/ LoadThread \/ LoadConnect
  \/ Subscribe \/ Unsubscribe
  \/ QueueThreadCheck \/ CallAvailable \/ CallOneCB \/ FTConnect
  \/ FTDisconnect
  \/ UpdateChildBeginF \/ UpdateChildSample \/ UpdateChildFill
  \/ UpdateChildPublish \/ UpdateChildEnd \/ UpdateChildAfterDestroy
  \/ DestructorDisconnect \/ DestructorClear \/ DestructorDisable
  \/ DestructorShutdown \/ DestructorJoin \/ DestructorDelete
  \/ DestructorBadPointer

FairSpec ==
  Init /\ [][NextF]_vars /\ WF_vars(QueueThreadStep) /\ WF_vars(DestructorStep)

\* ------------------------------------------------- a second destructor call
\* The destructor run again on the destroyed plugin (lines 45-51 a second
\* time).  Lines 45, 48 and 50 find their work done; line 47 empties queue_
\* once more; lines 49 and 51 go through the rosnode_ pointer that line 51
\* of the first call left dangling (or that Load never assigned), which is
\* undefined: the process dies, or the calls go on and the node is
\* released a second time.
DestructorSecondCall ==
  /\ hostPc = "destroyed"
  /\ ~crashed
  /\ \/ /\ crashed' = TRUE
        /\ UNCHANGED <<hostPc, rosnode_, queue_>>
     \/ /\ hostPc' = "destroyed_twice"
        /\ queue_' = [queue_ EXCEPT !.callbacks = <<>>]
        /\ rosnode_' = IF rosnode_ = "freed" THEN "freed_twice" ELSE rosnode_
        /\ UNCHANGED crashed
  /\ UNCHANGED <<joint_, frame_name_, update_rate_, pub_,
                 callback_queue_thread_, update_connection_,
                 ft_connect_count_, last_time_, lock_, wrench_msg_, simVars,
                 wrench, force, torque, qtPc, batch, loadHist, subVars,
                 nConnect, nDisconnect, useAfterFree>>

NextTwice == Next \/ DestructorSecondCall

SpecTwice == Init /\ [][NextTwice]_vars

\* ------------------------------------------------- the fixed-step scenario
\* The plugin loaded with <updateRate>10</updateRate>, one subscriber
\* connected and FTConnect delivered before the first world update; the
\* world then steps 1 ms per tick, tick k running at simulation time k.
InitA ==
  /\ hostPc = "loaded"
  /\ joint_ = "joint"
  /\ frame_name_ = Resolve(<<"/", "p">>, ChildLinkName)
  /\ update_rate_ = 10
  /\ rosnode_ = "ok"
  /\ pub_ = "advertised"
  /\ queue_ = [enabled |-> TRUE, callbacks |-> <<>>]
  /\ callback_queue_thread_ = "joinable"
  /\ update_connection_ = "connected"
  /\ ft_connect_count_ = 1
  /\ last_time_ = 0
  /\ lock_ = FALSE
  /\ wrench_msg_ = NoMsg
  /\ simTime = 0
  /\ simPc = "idle"
  /\ cur_time = 0
  /\ wrench = NoWrench
  /\ force = NoVec
  /\ torque = NoVec
  /\ qtPc = "poll"
  /\ batch = <<>>
  /\ loadFault = "none"
  /\ loadLog = <<"joint", "frame", "topic", "ros", "node", "resolve",
                 "advertise", "thread", "connect">>
  /\ tickNo = 0
  /\ pubLog = <<>>
  /\ subscribers = 1
  /\ subEvents = 1
  /\ nConnect = 1
  /\ nDisconnect = 0
  /\ useAfterFree = FALSE
  /\ crashed = FALSE

UpdateChildBeginA ==
  /\ tickNo < ScenarioTicks
  /\ UpdateChildGate(IF tickNo = 0 THEN 0 ELSE 1)

NextA ==
  \/ UpdateChildBeginA \/ UpdateChildSample \/ UpdateChildFill
  \/ UpdateChildPublish \/ UpdateChildEnd

SpecA == InitA /\ [][NextA]_vars

\* --------------------------------------------- the reconnection scenario
\* The plugin loaded with <updateRate>500</updateRate> (a period of 2 ms),
\* one subscriber connected and FTConnect delivered before the first world
\* update.  The world steps 1 ms per tick while subscribers come and go and
\* the delivery thread services queue_; the plugin is not unloaded.  The
\* ticks allow five publishes, an idle stretch and a publish after it.
InitD ==
  /\ hostPc = "loaded"
  /\ joint_ = "joint"
  /\ frame_name_ = Resolve(<<"/", "p">>, ChildLinkName)
  /\ update_rate_ = 500
  /\ rosnode_ = "ok"
  /\ pub_ = "advertised"
  /\ queue_ = [enabled |-> TRUE, callbacks |-> <<>>]
  /\ callback_queue_thread_ = "joinable"
  /\ update_connection_ = "connected"
  /\ ft_connect_count_ = 1
  /\ last_time_ = 0
  /\ lock_ = FALSE
  /\ wrench_msg_ = NoMsg
  /\ simTime = 0
  /\ simPc = "idle"
  /\ cur_time = 0
  /\ wrench = NoWrench
  /\ force = NoVec
  /\ torque = NoVec
  /\ qtPc = "poll"
  /\ batch = <<>>
  /\ loadFault = "none"
  /\ loadLog = <<"joint", "frame", "topic", "ros", "node", "resolve",
                 "advertise", "thread", "connect">>
  /\ tickNo = 0
  /\ pubLog = <<>>
  /\ subscribers = 1
  /\ subEvents = 1
  /\ nConnect = 1
  /\ nDisconnect = 0
  /\ useAfterFree = FALSE
  /\ crashed = FALSE

UpdateChildBeginD ==
  /\ tickNo < ReconnectTicks
  /\ UpdateChildGate(1)

NextD ==
  \/ Subscribe \/ Unsubscribe
  \/ QueueThreadCheck \/ CallAvailable \/ CallOneCB \/ FTConnect
  \/ FTDisconnect
  \/ UpdateChildBeginD \/ UpdateChildSample \/ UpdateChildFill
  \/ UpdateChildPublish \/ UpdateChildEnd

SpecD == InitD /\ [][NextD]_vars

\* ----------------------------------------------------------------- claims
DtorPcs == {"dtor_clear", "dtor_disable", "dtor_shutdown", "dtor_join",
            "dtor_delete"}
ShuttingDown == hostPc \in DtorPcs /\ loadFault = "none"
Stopped ==
  /\ hostPc = "destroyed"
  /\ qtPc = "exited"
  /\ callback_queue_thread_ = "joined"
  /\ rosnode_ = "freed"

\* C1: once rosnode_ has been deleted the delivery thread has returned from
\* QueueThread and has been joined; it never evaluates rosnode_->ok() or
\* services queue_ on a freed rosnode_.
C1_JoinedBeforeRelease ==
  /\ rosnode_ = "freed" =>
       /\ qtPc = "exited"
       /\ callback_queue_thread_ = "joined"
  /\ ~useAfterFree

C1_Witness ==
  /\ rosnode_ = "freed"
  /\ qtPc = "exited"
  /\ nConnect > 0

\* C2 (as stated): every message is sent, and every tick starts, while
\* UpdateChild is still connected to the world update event.
C2_NoPublishAfterDeregistration ==
  [][/\ Len(pubLog') > Len(pubLog) => update_connection_ = "connected"
     /\ tickNo' > tickNo => update_connection_ = "connected"]_vars

\* C3: a shutdown requested while the component runs always completes: the
\* delivery loop sees the node is down and returns, the join returns and
\* the component is stopped.
C3_ShutdownTerminates == ShuttingDown ~> Stopped

C3_Witness ==
  /\ hostPc = "dtor_join"
  /\ loadFault = "none"
  /\ qtPc = "poll"

\* C4: the destructor's steps take effect in the order deregister, clear
\* and disable queue_, shut the node down, join, delete: each effect is
\* only ever present together with all the earlier ones.
QueueOff == ~queue_.enabled
NodeDown == rosnode_ \in {"shutdown", "freed"}
C4_ShutdownOrder ==
  /\ hostPc \notin DtorPcs \cup {"destroyed"} =>
       queue_.enabled /\ ~NodeDown /\ callback_queue_thread_ # "joined"
  /\ hostPc \in DtorPcs \cup {"destroyed"} =>
       update_connection_ # "connected"
  /\ QueueOff => update_connection_ # "connected"
  /\ NodeDown => QueueOff
  /\ callback_queue_thread_ = "joined" => NodeDown /\ qtPc = "exited"
  /\ rosnode_ = "freed" => callback_queue_thread_ = "joined"
  /\ hostPc = "destroyed" /\ loadFault = "none" => rosnode_ = "freed"

C4_Witness ==
  /\ hostPc = "destroyed"
  /\ update_connection_ = "disconnected"
  /\ QueueOff
  /\ callback_queue_thread_ = "joined"
  /\ rosnode_ = "freed"

\* C5: when the input of Load lacks a prerequisite (joint name, joint,
\* topic name, initialized ROS) nothing is wired: no node handle, no
\* publisher, no thread, no update connection, and Load never completes.
C5_FailedLoadWiresNothing ==
  loadFault # "none" =>
    /\ rosnode_ = "uninit"
    /\ pub_ = "none"
    /\ callback_queue_thread_ = "not_a_thread"
    /\ qtPc = "none"
    /\ update_connection_ = "null"
    /\ hostPc \notin {"load_node", "load_advertise", "load_thread",
                      "load_connect", "loaded"}
    /\ tickNo = 0

C5_Witness ==
  /\ hostPc = "load_failed"
  /\ loadFault = "ros"
  /\ joint_ = "joint"

\* C6 (as stated): no tick reads ft_connect_count_ while FTConnect or
\* FTDisconnect is writing it.
InWrite == {"in_connect", "in_disconnect"}
ReadsCount ==
  /\ tickNo' = tickNo + 1
  /\ ~RateLimited(update_rate_, cur_time', last_time_)
C6_CounterSynchronized == [][~(ReadsCount /\ qtPc \in InWrite)]_vars

\* C7: ft_connect_count_ is the number of FTConnect calls less the number
\* of FTDisconnect calls.  As long as the callbacks arrive as the
\* subscribers came and went (none dropped by the destructor's
\* queue_.clear() or by the disabled queue) it is never negative, and once
\* every queued callback has been delivered it is the number of connected
\* subscribers.
NothingDropped ==
  hostPc \in {"constructed", "load_failed", "load_node", "load_advertise",
              "load_thread", "load_connect", "loaded", "dtor_clear"}
C7_CountIsNet ==
  /\ ft_connect_count_ = nConnect - nDisconnect
  /\ NothingDropped => ft_connect_count_ >= 0
  /\ NothingDropped /\ queue_.callbacks = <<>> /\ batch = <<>> =>
       ft_connect_count_ = subscribers

C7_Witness ==
  /\ nConnect = 2
  /\ nDisconnect = 1
  /\ ft_connect_count_ = 1

\* Ticks are numbered from 0; in the fixed-step scenario tick k runs at
\* simulation time k, so pubLog lists the ticks that published.  The ticks
\* 0 .. TicksDone - 1 have returned.
TicksDone == IF simPc = "idle" THEN tickNo ELSE tickNo - 1
PublishesIn(a, b) ==
  Cardinality({i \in 1..Len(pubLog) : a <= pubLog[i] /\ pubLog[i] <= b})

\* C8 (as stated): at 10 Hz and 1 ms per tick the first publish is at tick
\* 0 and every 100 consecutive ticks hold exactly one publish.
C8_FirstPublishAtTickZero ==
  /\ TicksDone >= 1 => Len(pubLog) >= 1 /\ pubLog[1] = 0
  /\ \A a \in 0..(TicksDone - 100) : PublishesIn(a, a + 99) = 1

\* C8 (amended): the publishes are exactly the ticks 100, 200, ...: the
\* first is at tick 100, and every 100 consecutive ticks after tick 0 hold
\* exactly one publish.
C8_PublishEveryHundredTicks ==
  /\ \A i \in 1..Len(pubLog) : pubLog[i] = 100 * i
  /\ simPc = "idle" /\ tickNo >= 1 => Len(pubLog) = (tickNo - 1) \div 100
  /\ \A a \in 1..(TicksDone - 100) : PublishesIn(a, a + 99) = 1

C8_Witness ==
  /\ update_rate_ = 10
  /\ tickNo > 200
  /\ Len(pubLog) = 2
  /\ pubLog[2] = 200

\* C9: with update rate f > 0 the messages sent within a window of length
\* T number at most floor(T * f) + 1.  (Stated on the windows that start
\* and end at a publish; any window holding the same publishes is longer.)
C9_WindowBound ==
  update_rate_ > 0 =>
    \A i, j \in 1..Len(pubLog) :
      i <= j =>
        (j - i) + 1 <=
          ((pubLog[j] - pubLog[i]) * update_rate_) \div TicksPerSec + 1

C9_Witness ==
  /\ update_rate_ > 0
  /\ Len(pubLog) >= 2
  /\ simPc = "idle"

\* C10: a tick that finds ft_connect_count_ zero takes no sample and sends
\* nothing, whatever the update rate and the time elapsed; when no
\* subscriber ever connected nothing has been sent.
C10_NoSubscriberNoPublish ==
  /\ [](subEvents = 0 => pubLog = <<>> /\ simPc = "idle")
  /\ [][(ReadsCount /\ ft_connect_count_ = 0 /\ qtPc \notin InWrite) =>
          (simPc' = "idle" /\ pubLog' = pubLog /\ wrench_msg_' = wrench_msg_)
       ]_vars

C10_Witness ==
  /\ subEvents = 0
  /\ tickNo >= 2
  /\ simTime >= 2
  /\ hostPc = "loaded"

\* C11: with update rate 0 every tick that finds ft_connect_count_ at least
\* one goes on to sample, whatever the time since the last tick and
\* whatever last_time_; its publish call sends exactly one message, and no
\* tick sends more than one.
TickStarts == tickNo' = tickNo + 1
C11_UnboundedRatePublishesEveryTick ==
  /\ [][(TickStarts /\ update_rate_ = 0 /\ ft_connect_count_ >= 1
          /\ qtPc \notin InWrite) => simPc' = "sample"]_vars
  /\ [][(simPc = "publish" /\ simPc' # "publish" /\ pub_ = "advertised") =>
          pubLog' = Append(pubLog, cur_time)]_vars
  /\ [][pubLog' # pubLog => (simPc = "publish" /\ simPc' = "unlock")]_vars
  /\ [](Len(pubLog) <= tickNo)

C11_Witness ==
  /\ update_rate_ = 0
  /\ tickNo = 2
  /\ simPc = "idle"
  /\ pubLog = <<0, 0>>
  /\ last_time_ = 0

\* C12: a tick that returns because ft_connect_count_ is zero leaves
\* last_time_ alone, so last_time_ stays the time of the last publish.
\* When the subscriber has gone, more than one period has passed since the
\* last publish and a subscriber connects again, ft_connect_count_ is back
\* at 1 and the very next tick samples and publishes.
LastPublish == pubLog[Len(pubLog)]
C12_ResumesOnNextTick ==
  /\ [][(TickStarts /\ simPc' = "idle") => last_time_' = last_time_]_vars
  /\ [](simPc = "idle" /\ pubLog # <<>> => last_time_ = LastPublish)
  /\ [][(/\ TickStarts
         /\ pubLog # <<>>
         /\ ft_connect_count_ >= 1
         /\ qtPc \notin InWrite
         /\ (simTime' - LastPublish) * update_rate_ >= TicksPerSec)
          => simPc' = "sample"]_vars
  /\ [](subscribers = 1 /\ queue_.callbacks = <<>> /\ batch = <<>> =>
          ft_connect_count_ = 1)

C12_Witness ==
  /\ nConnect = 2
  /\ nDisconnect = 1
  /\ ft_connect_count_ = 1
  /\ simPc = "idle"
  /\ Len(pubLog) >= 6
  /\ LastPublish = simTime
  /\ LastPublish - pubLog[Len(pubLog) - 1] >= 4

\* C13 (as stated): a second destructor call on a plugin that was loaded
\* and destroyed is a no-op: it changes no member, releases nothing again
\* and does not bring the process down.
C13_SecondShutdownIsNoOp ==
  /\ [][(hostPc = "destroyed" /\ hostPc' # "destroyed" /\ loadFault = "none")
          => UNCHANGED progVars]_vars
  /\ [][(hostPc = "destroyed" /\ simPc = "idle" /\ loadFault = "none")
          => crashed' = crashed]_vars
  /\ [](rosnode_ # "freed_twice")

\* C14: the message handed to publish carries, component for component,
\* the child-body force and torque of the wrench the joint reported on that
\* tick, and as frame id the frame name Load resolved (the child link's
\* name under the tf prefix).
C14_MessageCarriesChildWrench ==
  simPc \in {"publish", "unlock"} =>
    /\ wrench = GetForceTorque(cur_time)
    /\ \A i \in 1..3 :
         /\ wrench_msg_.force[i] = wrench.body2Force[i]
         /\ wrench_msg_.torque[i] = wrench.body2Torque[i]
    /\ wrench_msg_.frame_id = frame_name_
    /\ frame_name_ \in {Resolve(p, ChildLinkName) : p \in Prefixes}

C14_Witness ==
  /\ simPc = "unlock"
  /\ pubLog = <<1>>
  /\ wrench_msg_.force = <<31, 32, 33>>
  /\ wrench_msg_.torque = <<41, 42, 43>>
  /\ wrench_msg_.frame_id = <<"p", "/", "l">>

\* C15: a tick that returns at the rate control test or at the subscriber
\* check leaves wrench_msg_, last_time_, lock_ and the messages sent as
\* they were.  last_time_ changes only at the end of a tick that went
\* through the publish call, and becomes the simulation time that tick read
\* at its start; while the plugin stays loaded that is the time of the
\* message just sent.
C15_SkippedTickHasNoEffect ==
  /\ [][(TickStarts /\ simPc' = "idle") =>
          UNCHANGED <<wrench_msg_, last_time_, lock_, pubLog>>]_vars
  /\ [][last_time_' # last_time_ =>
          /\ simPc = "unlock"
          /\ simPc' = "idle"
          /\ last_time_' = cur_time
          /\ cur_time = wrench_msg_.stamp]_vars
  /\ [][(last_time_' # last_time_ /\ hostPc = "loaded") =>
          (pubLog # <<>> /\ LastPublish = last_time_')]_vars

C15_Witness ==
  /\ tickNo = 2
  /\ simPc = "idle"
  /\ pubLog = <<1>>
  /\ last_time_ = 1
  /\ wrench_msg_.stamp = 1
  /\ lock_ = FALSE

\* C16: wrench_msg_ is written and published only with lock_ held; lock_
\* is taken once, before the buffer is filled, and released once, after
\* the publish call, by each tick that publishes; it is free whenever
\* UpdateChild is not running.
C16_BufferOnlyUnderLock ==
  /\ [](lock_ <=> simPc \in {"fill", "publish", "unlock"})
  /\ [](simPc = "idle" => ~lock_)
  /\ [][wrench_msg_' # wrench_msg_ => (lock_ /\ lock_')]_vars
  /\ [][pubLog' # pubLog => (lock_ /\ lock_')]_vars
  /\ [][lock_' # lock_ =>
          \/ simPc = "sample" /\ simPc' = "fill" /\ lock_'
          \/ simPc = "unlock" /\ simPc' = "idle" /\ ~lock_']_vars

C16_Witness ==
  /\ lock_
  /\ simPc = "unlock"
  /\ pubLog = <<0>>
  /\ wrench_msg_.stamp = 0
  /\ wrench_msg_.force = <<30, 31, 32>>

\* The steps of Load as loadLog names them: "joint" the joint name is
\* present and the joint found, "frame" the child link's name is stored as
\* frame name, "topic" the topic name is present, "ros" ROS is initialized,
\* "node" the node handle is created, "resolve" the frame name is resolved
\* against tf_prefix, "advertise" FTConnect/FTDisconnect are registered,
\* "thread" the delivery thread is started, "connect" UpdateChild is
\* registered with the world update event.
LogBefore(a, b) ==
  \A i, j \in 1..Len(loadLog) : (loadLog[i] = a /\ loadLog[j] = b) => i < j
Logged(a) == \E i \in 1..Len(loadLog) : loadLog[i] = a
IsPrefix(s, t) ==
  /\ Len(s) <= Len(t)
  /\ \A i \in 1..Len(s) : s[i] = t[i]
LoadOrder == <<"joint", "frame", "topic", "ros", "node", "resolve",
               "advertise", "thread", "connect">>

\* C17 (as stated): Load validates the configuration, then resolves the
\* frame, then acquires the node handle, then registers the callbacks,
\* starts the thread and registers the tick callback.
C17_FrameResolvedBeforeContext ==
  /\ LogBefore("joint", "topic")
  /\ LogBefore("topic", "resolve")
  /\ LogBefore("resolve", "node")
  /\ LogBefore("node", "advertise")
  /\ LogBefore("advertise", "thread")
  /\ LogBefore("thread", "connect")

\* C17 (amended): Load finds the joint and stores its child link's name,
\* checks the topic name and that ROS is initialized, creates the node
\* handle, only then resolves the frame name, registers the callbacks,
\* starts the thread and last registers the tick callback; each effect is
\* present exactly when its step has been taken.
C17_LoadOrder ==
  /\ IsPrefix(loadLog, LoadOrder)
  /\ hostPc = "loaded" => loadLog = LoadOrder
  /\ Logged("frame") <=> frame_name_ # <<>>
  /\ Logged("node") <=> rosnode_ # "uninit"
  /\ Logged("resolve") <=>
       frame_name_ \in {Resolve(p, ChildLinkName) : p \in Prefixes}
  /\ Logged("advertise") <=> pub_ # "none"
  /\ Logged("thread") <=> callback_queue_thread_ # "not_a_thread"
  /\ Logged("connect") <=> update_connection_ # "null"

C17_Witness ==
  /\ hostPc = "loaded"
  /\ loadLog = LoadOrder
  /\ frame_name_ = <<"p", "/", "l">>
  /\ update_connection_ = "connected"

\* C18: whenever UpdateChild is connected to the world update event the
\* component is running: Load's input had every prerequisite, the node
\* handle and the publisher are live, and the delivery thread has been
\* started, is in its loop and has not been joined.
C18_ConnectedImpliesRunning ==
  update_connection_ = "connected" =>
    /\ loadFault = "none"
    /\ hostPc = "loaded"
    /\ joint_ = "joint"
    /\ rosnode_ = "ok"
    /\ pub_ = "advertised"
    /\ queue_.enabled
    /\ callback_queue_thread_ = "joinable"
    /\ qtPc \notin {"none", "exited"}

C18_Witness ==
  /\ update_connection_ = "connected"
  /\ tickNo >= 1
  /\ nConnect >= 1
  /\ simPc = "publish"

\* C19 (as stated): unloading a plugin whose Load returned early is safe:
\* the destructor does not go through rosnode_, which Load never assigned,
\* and the process survives it.
C19_FailedLoadShutdownSafe ==
  loadFault # "none" => ~crashed

\* C20: with update rate f > 0 any two consecutive messages are at least
\* 1/f apart in simulation time, whatever subscribers came and went
\* between them.
C20_ConsecutiveGap ==
  update_rate_ > 0 =>
    \A i \in 1..(Len(pubLog) - 1) :
      (pubLog[i + 1] - pubLog[i]) * update_rate_ >= TicksPerSec

C20_Witness ==
  /\ update_rate_ = 500
  /\ pubLog = <<2, 4, 7>>
  /\ subEvents = 2
  /\ nDisconnect = 1
====
